---- MODULE Spec2Model ----
(***************************************************************************)
(* The authentication and group settlement engine of src/split.py: the     *)
(* two in-memory stores (fake_users_db, fake_groups_db), the signed tokens *)
(* handed out by /login and /refresh, and one action per HTTP handler.     *)
(*                                                                         *)
(* Money is counted in cents (round(x, 2) rounds to a whole cent).  A      *)
(* request is recorded with its HTTP status code in resp; an unhandled     *)
(* Python exception (KeyError, ZeroDivisionError) is the status 500        *)
(* FastAPI answers with, and the writes made before the exception stay in  *)
(* the stores.                                                             *)
(*                                                                         *)
(* A route declared with Depends(get_token_payload) is served in separate  *)
(* turns of the server: FastAPI first resolves the dependency, which       *)
(* decodes the token at that instant and answers 401 itself when it does   *)
(* not decode, and then calls the handler with the payload the dependency  *)
(* returned (GET /admin/users has a second dependency, require_role, in    *)
(* between).  Each turn is one step; pending holds the requests between    *)
(* their dependencies and their handler, and the clock and other requests  *)
(* may be served in between.  /register, /login, add-user and GET /groups  *)
(* have no such dependency and are one step each, except in the concurrent *)
(* runs, where add-user is served statement by statement.                  *)
(*                                                                         *)
(* Every dependency action draws its bearer from all tokens issued so far  *)
(* and a forged one: get_token_payload does not read token_type, so a      *)
(* refresh token passes it on every route.  Up to MaxPending requests are  *)
(* between dependency and handler at once.                                 *)
(*                                                                         *)
(* Spec runs register, login, create and add-user from the empty stores.   *)
(* SpecAccounts runs registration and login with every input and the       *)
(* clock.  SpecAuth runs the token checks, the role gate and the clock;    *)
(* SpecMember the refresh route while users join groups.  SpecPay and      *)
(* SpecStatus run paying and the status view with the clock from the       *)
(* states reached once both users have logged in; SpecSettle runs paying   *)
(* and deciding with the clock once the administrator has logged in.       *)
(* SpecConcurrent runs two add-user requests in two threads.  SpecMain and *)
(* SpecEnhanced run the two booking applications.                          *)
(***************************************************************************)
EXTENDS Integers, Sequences, FiniteSets, TLC

VARIABLES
    fake_users_db,   \* username -> user record            (split.py:21)
    fake_groups_db,  \* group name -> group record         (split.py:22)
    tokens,          \* the tokens issued so far by /login and /refresh
    now,             \* datetime.utcnow(), in minutes
    pending,         \* the requests whose dependencies have returned, handler not yet run
    resp,            \* the request the last step served and the status code it
                     \* answered with (0 while the request is in progress)
    calls,           \* the add-user requests in progress: call -> position and locals
    main,            \* the module globals of main.py and its last response
    enhanced         \* the module globals of enhancedversion.py and its last response

vars == <<fake_users_db, fake_groups_db, tokens, now, pending, resp, calls, main, enhanced>>

\* the state of split.py, and the state of the two booking applications
split_app == <<fake_users_db, fake_groups_db, tokens, now, pending, resp, calls>>
booking_apps == <<main, enhanced>>

(***************************************************************************)
(* Bounds and the inputs requests are drawn from.                          *)
(***************************************************************************)
MaxTokens == 4
\* the requests that can be between their dependencies and their handler at once
MaxPending == 2
\* the movies, showtimes and bookings a booking application is given
MaxMovies == 1
MaxShowtimes == 2
MaxBookings == 3
\* the inputs of the booking requests: ticket prices and seats asked for
\* (0 fails the request validation), ids named in a path or a body
PriceInputs == {0, 12}
SeatsInputs == {0, 20, 30}
\* enhancedversion.py: the halls' sizes (5 fails the request validation), the
\* seats asked for, and the most seats a showtime is let to show as available
TotalSeatsInputs == {5, 10}
EnhancedSeatsInputs == {0, 2, 8}
MaxAvailable == 18
MovieIds == 1..(MaxMovies + 1)
ShowtimeIds == 1..(MaxShowtimes + 1)
BookingIds == 1..(MaxBookings + 1)
\* the instants the clock is observed at, in minutes since the start: the
\* start, past the life of an access token issued at the start (and within
\* that of its refresh token), and past the life of that refresh token
ClockInstants == {0, 31, 10081}

Usernames == {"alice", "bob"}
\* the add-user requests that can be in progress at once
CallIds == {1, 2}
GroupNames == {"trip"}
Passwords == {"pw1", "pw2"}
RoleInputs == {"user", "admin"}
\* the groups form field, already split at its commas; "" is a blank item
GroupsInputs == {<<"">>, <<"trip">>, <<"trip", " ", " trip ">>}
\* the groups field of the users who register to join and settle: none or one
MemberGroupsInputs == {<<"">>, <<"trip">>}
BudgetInputs == {0, 100}
AmountInputs == {50, 200}
ActionInputs == {"approve", "deny", "hold"}

(***************************************************************************)
(* Settings (split.py:10-14), in minutes.                                  *)
(***************************************************************************)
SECRET_KEY == "mysecretkey"
ACCESS_TOKEN_EXPIRE_MINUTES == 30
REFRESH_TOKEN_EXPIRE_DAYS == 7
MinutesPerDay == 1440

(***************************************************************************)
(* Dictionaries.                                                           *)
(***************************************************************************)
Put(f, k, v) == [x \in (DOMAIN f) \cup {k} |-> IF x = k THEN v ELSE f[x]]

EmptyDict == [x \in {} |-> 0]

InSeq(x, s) == \E i \in 1..Len(s) : s[i] = x

(***************************************************************************)
(* Binary doubles.  The amounts are floats: a budget of b cents is the     *)
(* double nearest b / 100, a division gives the double nearest the exact   *)
(* quotient, and round(x, 2) gives the hundredth nearest the double x, a   *)
(* tie going to the even hundredth.  An exact quotient that is not midway  *)
(* between two hundredths is rounded as the double is; at a midway one the *)
(* result depends on the side the double falls on, which the remainders of *)
(* the two roundings to 53 bits tell.                                      *)
(***************************************************************************)
\* (v * 2^s) mod m
RECURSIVE ShiftMod(_, _, _)
ShiftMod(v, s, m) == IF s = 0 THEN v % m ELSE ShiftMod((2 * v) % m, s - 1, m)

\* the exponent j with lo <= b * 2^j < 2 * lo, for b > 0
RECURSIVE BinaryExponent(_, _)
BinaryExponent(b, lo) ==
    IF b < lo THEN BinaryExponent(2 * b, lo) + 1
    ELSE IF b >= 2 * lo THEN BinaryExponent(b \div 2, lo) - 1
    ELSE 0

\* the integer part of log2(n), for n > 0
RECURSIVE Log2(_)
Log2(n) == IF n < 2 THEN 0 ELSE Log2(n \div 2) + 1

\* b * 2^k >= bound, for an exponent k of either sign
ScaledAtLeast(b, k, bound) ==
    IF k >= 0 THEN b * 2^k >= bound ELSE b \div 2^(0 - k) >= bound

\* round to nearest, ties to even: whether a quotient with remainder r of a
\* division by m goes up (parity is that of the quotient rounded down)
RoundsUp(r, m, parity) == 2 * r > m \/ (2 * r = m /\ parity % 2 = 1)

\* the sign of (budget / 100) / n, computed in doubles, minus the exact
\* b / (100 n), for b > 0: positive, negative or zero.
\*   the budget is the double M * 2^-s with M = round(b * 2^s / 100), 53 bits;
\*   the quotient is the double Q * 2^-(s+t) with Q = round(M * 2^t / n);
\*   100 n Q - b 2^(s+t) = (100 M - b 2^s) * 2^t + 100 * (n Q - M 2^t).
QuotientSide(b, n) ==
    LET j == BinaryExponent(b, 100)
        s == 52 + j
        rem1 == ShiftMod(b % (200 * n), s, 200 * n)       \* b * 2^s mod 200 n
        r1 == rem1 % 100
        up1 == RoundsUp(r1, 100, rem1 \div 100)
        e1 == IF up1 THEN 100 - r1 ELSE 0 - r1            \* 100 M - b 2^s
        M == ((rem1 \div 100) + (IF up1 THEN 1 ELSE 0)) % (2 * n)   \* M mod 2n
        a == Log2(n)
        t == IF ScaledAtLeast(b, j + a, 100 * n) THEN a ELSE a + 1
        rem2 == ShiftMod(M, t, 2 * n)                     \* M * 2^t mod 2n
        r2 == rem2 % n
        e2 == IF RoundsUp(r2, n, rem2 \div n) THEN n - r2 ELSE 0 - r2
    IN  e1 * 2^t + 100 * e2

\* round(budget / n, 2) on an amount in cents
Round2(budget, n) ==
    LET b == IF budget < 0 THEN 0 - budget ELSE budget
        q == b \div n
        r == b % n
        side == IF b = 0 THEN 0 ELSE QuotientSide(b, n)
        cents == IF 2 * r < n THEN q
                 ELSE IF 2 * r > n THEN q + 1
                 ELSE IF side > 0 THEN q + 1
                 ELSE IF side < 0 THEN q
                 ELSE IF q % 2 = 0 THEN q ELSE q + 1
    IN  IF budget < 0 THEN 0 - cents ELSE cents

(***************************************************************************)
(* Passwords: pbkdf2_sha256 through passlib.                               *)
(***************************************************************************)
hash_password(password) == [scheme |-> "pbkdf2_sha256", digest |-> <<"pbkdf2", password>>]

\* a mutation of verify_password: only the scheme of the hash is looked at
verify_passwordSchemeOnly(plain_password, hashed_password) ==
    hashed_password.scheme = hash_password(plain_password).scheme

verify_password(plain_password, hashed_password) ==
    hashed_password = hash_password(plain_password)

(***************************************************************************)
(* Tokens.  jwt.encode serialises the claims as a JSON object and signs    *)
(* it; jwt.decode verifies the signature, parses the object back into a    *)
(* dict and checks its exp claim.  A token is the serialised claims and    *)
(* the signature; the exp claim is the expiry instant as a number.         *)
(***************************************************************************)
\* the order create_access_token and create_refresh_token insert the claims in
ClaimOrder == <<"sub", "roles", "groups", "exp", "token_type">>

\* json.dumps of a dict of claims: its members, in insertion order
json_dumps(claims) ==
    LET names == SelectSeq(ClaimOrder, LAMBDA k : k \in DOMAIN claims)
    IN  [i \in 1..Len(names) |-> <<names[i], claims[names[i]]>>]

\* json.loads of an object: the dict of its members
json_loads(members) ==
    [k \in {members[i][1] : i \in 1..Len(members)} |->
        members[CHOOSE i \in 1..Len(members) : members[i][1] = k][2]]

\* the HS256 signature of a serialised payload under a key
hmac_sign(key, payload) == [alg |-> "HS256", key |-> key, signed |-> payload]

jwt_encode(claims, key) ==
    [payload |-> json_dumps(claims), signature |-> hmac_sign(key, json_dumps(claims))]

\* the claims a token carries
jwt_claims(token) == json_loads(token.payload)

\* no bearer token: the requests of the routes that take none
NoToken == [payload |-> <<>>, signature |-> hmac_sign("", <<>>)]

create_access_token(data) ==
    jwt_encode([k \in (DOMAIN data) \cup {"exp", "token_type"} |->
                   IF k = "exp" THEN now + ACCESS_TOKEN_EXPIRE_MINUTES
                   ELSE IF k = "token_type" THEN "access"
                   ELSE data[k]],
               SECRET_KEY)

create_refresh_token(data) ==
    jwt_encode([k \in (DOMAIN data) \cup {"exp", "token_type"} |->
                   IF k = "exp" THEN now + REFRESH_TOKEN_EXPIRE_DAYS * MinutesPerDay
                   ELSE IF k = "token_type" THEN "refresh"
                   ELSE data[k]],
               SECRET_KEY)

\* a token signed with another key, claiming to be an admin
ForgedToken ==
    jwt_encode([sub |-> "alice", roles |-> <<"admin">>, groups |-> <<>>,
                exp |-> REFRESH_TOKEN_EXPIRE_DAYS * MinutesPerDay,
                token_type |-> "access"], "guessed")

\* the bearer tokens a request can carry
Bearers == tokens \cup {ForgedToken}

\* a token signed with the application's key whose claims have no roles
RolelessToken ==
    jwt_encode([sub |-> "alice", groups |-> <<>>,
                exp |-> ACCESS_TOKEN_EXPIRE_MINUTES, token_type |-> "access"],
               SECRET_KEY)

\* a mutation of token_error: the expiry of the token is not checked
token_errorNoExpiry(token) ==
    IF token.signature # hmac_sign(SECRET_KEY, token.payload) THEN "Invalid token"
    ELSE ""

\* jwt.decode: the detail of the exception raised, "" when the token decodes
\* (the signature is verified before the exp claim)
token_error(token) ==
    IF token.signature # hmac_sign(SECRET_KEY, token.payload) THEN "Invalid token"
    ELSE LET claims == jwt_claims(token)
         IN  IF "exp" \in DOMAIN claims /\ claims.exp <= now THEN "Token expired"
             ELSE ""

\* get_token_payload(token): the claims jwt.decode returns, or the 401 raised
get_token_payload(token) ==
    LET detail == token_error(token)
    IN  IF detail # ""
        THEN [status_code |-> 401, detail |-> detail, payload |-> EmptyDict]
        ELSE [status_code |-> 0, detail |-> "", payload |-> jwt_claims(token)]

(***************************************************************************)
(* Records.                                                                *)
(***************************************************************************)
\* the dict register creates for a group named in its groups field
LazyGroup == [keys |-> {"members"}, admin |-> "", budget |-> 0, members |-> <<>>,
              split_amount |-> 0, payments |-> EmptyDict]

FullKeys == {"admin", "budget", "members", "split_amount", "payments"}

DefaultPayment == [paid_amount |-> 0, status |-> "unpaid"]

Request(op, token, group, username, action, amount) ==
    [op |-> op, token |-> token, group |-> group, username |-> username,
     action |-> action, amount |-> amount]

Answer(req, code) ==
    [op |-> req.op, token |-> req.token, group |-> req.group,
     username |-> req.username, action |-> req.action, amount |-> req.amount,
     code |-> code]

\* a request whose dependency has returned: the request, the add_creator
\* field of its form (create_group reads it), the payload the dependency
\* returned and the dependency that returned last
Resolved(req, add_creator, payload, dependency) ==
    [req |-> req, add_creator |-> add_creator, payload |-> payload,
     dependency |-> dependency]

\* what resp shows while a request is in progress: the dependency that has
\* just returned, and no status code
InProgress(w) == Answer([w.req EXCEPT !.op = w.dependency], 0)

(***************************************************************************)
(* Dependencies.  FastAPI resolves the Depends(...) of a route before it   *)
(* calls the handler, each in a turn of its own: the requests of other     *)
(* clients are served, and the clock moves, between the moment             *)
(* get_token_payload decodes the token and the moment the handler reads    *)
(* the stores.  OAuth2PasswordRequestForm, the dependency of login, reads  *)
(* the request only.                                                       *)
(***************************************************************************)
\* payload.get(key, default)
payload_get(payload, key, default) ==
    IF key \in DOMAIN payload THEN payload[key] ELSE default

\* Depends(get_token_payload) of request req, got being what
\* get_token_payload returned or raised for the token of the request
depends_get_token_payload(req, add_creator, got) ==
    /\ IF got.status_code # 0
       THEN /\ resp' = Answer(req, got.status_code)
            /\ UNCHANGED pending
       ELSE \E w \in {Resolved(req, add_creator, got.payload, "get_token_payload")} :
            /\ w \notin pending
            /\ Cardinality(pending) < MaxPending
            /\ pending' = pending \cup {w}
            /\ resp' = InProgress(w)
    /\ UNCHANGED <<fake_users_db, fake_groups_db, tokens, now>>

\* a mutation of require_role: any role at all passes the gate
require_roleAnyRole(required_roles, payload) ==
    IF payload_get(payload, "roles", <<>>) = <<>> THEN 403 ELSE 0

\* role_checker of require_role(required_roles) on the payload its own
\* dependency returned: 0 when it passes, else the status code raised
require_role(required_roles, payload) ==
    LET roles == payload_get(payload, "roles", <<>>)
    IN  IF ~ \E r \in required_roles : InSeq(r, roles) THEN 403 ELSE 0

\* Depends(require_role(required_roles)) of a request whose token is decoded
depends_require_role(w, required_roles) ==
    LET done == [w EXCEPT !.dependency = "require_role"]
    IN  /\ w.dependency = "get_token_payload"
        /\ IF require_role(required_roles, w.payload) # 0
           THEN /\ resp' = Answer(w.req, require_role(required_roles, w.payload))
                /\ pending' = pending \ {w}
           ELSE /\ pending' = (pending \ {w}) \cup {done}
                /\ resp' = InProgress(done)
        /\ UNCHANGED <<fake_users_db, fake_groups_db, tokens, now>>

\* a worker thread that is serving no add-user request
IdleCall == [pc |-> "idle", username |-> "", group_name |-> "",
             total_members |-> 0, next_member |-> 0]

\* main.py after import: empty dicts, counters at 1 (main.py:37-43)
MainStart ==
    [movies |-> EmptyDict, showtimes |-> EmptyDict, bookings |-> EmptyDict,
     movie_counter |-> 1, showtime_counter |-> 1, booking_counter |-> 1,
     response |-> [op |-> "start", id |-> 0, seats |-> 0, code |-> 0]]

\* enhancedversion.py after import (enhancedversion.py:72-78)
EnhancedStart ==
    [movies |-> EmptyDict, showtimes |-> EmptyDict, bookings |-> EmptyDict,
     movie_counter |-> 1, showtime_counter |-> 1, booking_counter |-> 1,
     response |-> [op |-> "start", id |-> 0, seats |-> 0, code |-> 0]]

Init ==
    /\ main = MainStart
    /\ enhanced = EnhancedStart
    /\ calls = [c \in CallIds |-> IdleCall]
    /\ fake_users_db = EmptyDict
    /\ fake_groups_db = EmptyDict
    /\ tokens = {}
    /\ now = 0
    /\ pending = {}
    /\ resp = Answer(Request("start", NoToken, "", "", "", 0), 0)

(***************************************************************************)
(* POST /register                                                          *)
(***************************************************************************)
\* str.strip(): the string without the whitespace at its two ends.  The
\* whitespace of a Python str: space, tab, newline, carriage return, form
\* feed, then the characters 0x0b, 0x1c, 0x1d, 0x1e, 0x1f, 0x85, 0xa0 and
\* 0x1680 (the spaces from 0x2000 on cannot be written in a string here)
Whitespace == {" ", "\t", "\n", "\r", "\f", "", "", "", "", "", "", " ", " "}

RECURSIVE lstrip(_)
lstrip(g) ==
    IF Len(g) > 0 /\ SubSeq(g, 1, 1) \in Whitespace
    THEN lstrip(SubSeq(g, 2, Len(g))) ELSE g

RECURSIVE rstrip(_)
rstrip(g) ==
    IF Len(g) > 0 /\ SubSeq(g, Len(g), Len(g)) \in Whitespace
    THEN rstrip(SubSeq(g, 1, Len(g) - 1)) ELSE g

strip(g) == rstrip(lstrip(g))

\* [g.strip() for g in groups.split(",") if g.strip()], on the items that
\* groups.split(",") gives (one empty item for an empty field)
ParseGroups(items) ==
    LET kept == SelectSeq(items, LAMBDA g : strip(g) # "")
    IN  [i \in 1..Len(kept) |-> strip(kept[i])]

\* for g in groups_list: fake_groups_db.setdefault(g, {"members": []})["members"].append(username)
RECURSIVE JoinGroups(_, _, _)
JoinGroups(db, groups_list, username) ==
    IF groups_list = <<>> THEN db
    ELSE LET g == Head(groups_list)
             cur == IF g \in DOMAIN db THEN db[g] ELSE LazyGroup
         IN  JoinGroups(Put(db, g, [cur EXCEPT !.members = Append(@, username)]),
                        Tail(groups_list), username)

\* a mutation of register: a username already present is registered again
registerOverwrite(username, password, role, groups) ==
    LET req == Request("register", NoToken, "", username, "", 0)
        groups_list == ParseGroups(groups)
    IN  /\ fake_users_db' = Put(fake_users_db, username,
               [username |-> username, password |-> hash_password(password),
                roles |-> <<role>>, groups |-> groups_list])
        /\ fake_groups_db' = JoinGroups(fake_groups_db, groups_list, username)
        /\ resp' = Answer(req, 200)
        /\ UNCHANGED <<tokens, now>>

register(username, password, role, groups) ==
    LET req == Request("register", NoToken, "", username, "", 0)
        groups_list == ParseGroups(groups)
    IN  IF username \in DOMAIN fake_users_db
        THEN /\ resp' = Answer(req, 400)
             /\ UNCHANGED <<fake_users_db, fake_groups_db, tokens, now>>
        ELSE /\ fake_users_db' = Put(fake_users_db, username,
                    [username |-> username, password |-> hash_password(password),
                     roles |-> <<role>>, groups |-> groups_list])
             /\ fake_groups_db' = JoinGroups(fake_groups_db, groups_list, username)
             /\ resp' = Answer(req, 200)
             /\ UNCHANGED <<tokens, now>>

(***************************************************************************)
(* POST /login, POST /refresh                                              *)
(***************************************************************************)
authenticate_user(username, password) ==
    /\ username \in DOMAIN fake_users_db
    /\ verify_password(password, fake_users_db[username].password)

login(username, password) ==
    LET req == Request("login", NoToken, "", username, "", 0)
    IN  IF ~authenticate_user(username, password)
        THEN /\ resp' = Answer(req, 401)
             /\ UNCHANGED <<fake_users_db, fake_groups_db, tokens, now>>
        ELSE LET user == fake_users_db[username]
                 payload == [sub |-> user.username, roles |-> user.roles,
                             groups |-> user.groups]
                 issued == {create_access_token(payload), create_refresh_token(payload)}
             IN  /\ Cardinality(tokens \cup issued) <= MaxTokens
                 /\ tokens' = tokens \cup issued
                 /\ resp' = Answer(req, 200)
                 /\ UNCHANGED <<fake_users_db, fake_groups_db, now>>

\* a mutation of refresh_token: the new access token is built from the
\* user's stored record instead of the presented token's claims
refresh_tokenFromRecord(w) ==
    LET payload == w.payload
    IN  /\ pending' = pending \ {w}
        /\ IF payload_get(payload, "token_type", "") # "refresh"
           THEN /\ resp' = Answer(w.req, 401)
                /\ UNCHANGED <<fake_users_db, fake_groups_db, tokens, now>>
           ELSE LET new_access == create_access_token(
                        [sub |-> payload.sub,
                         roles |-> fake_users_db[payload.sub].roles,
                         groups |-> fake_users_db[payload.sub].groups])
                IN  /\ Cardinality(tokens \cup {new_access}) <= MaxTokens
                    /\ tokens' = tokens \cup {new_access}
                    /\ resp' = Answer(w.req, 200)
                    /\ UNCHANGED <<fake_users_db, fake_groups_db, now>>

\* the handler, called with the payload its dependency returned
refresh_token(w) ==
    LET payload == w.payload
    IN  /\ pending' = pending \ {w}
        /\ IF payload_get(payload, "token_type", "") # "refresh"
           THEN /\ resp' = Answer(w.req, 401)
                /\ UNCHANGED <<fake_users_db, fake_groups_db, tokens, now>>
           ELSE LET new_access == create_access_token(
                        [sub |-> payload.sub,
                         roles |-> payload_get(payload, "roles", <<>>),
                         groups |-> payload_get(payload, "groups", <<>>)])
                IN  /\ Cardinality(tokens \cup {new_access}) <= MaxTokens
                    /\ tokens' = tokens \cup {new_access}
                    /\ resp' = Answer(w.req, 200)
                    /\ UNCHANGED <<fake_users_db, fake_groups_db, now>>

(***************************************************************************)
(* GET /protected, GET /admin/users                                        *)
(***************************************************************************)
protected(w) ==
    /\ pending' = pending \ {w}
    /\ resp' = Answer(w.req, 200)
    /\ UNCHANGED <<fake_users_db, fake_groups_db, tokens, now>>

\* the handler runs once require_role has passed the payload
list_users(w) ==
    /\ w.dependency = "require_role"
    /\ pending' = pending \ {w}
    /\ resp' = Answer(w.req, 200)
    /\ UNCHANGED <<fake_users_db, fake_groups_db, tokens, now>>

(***************************************************************************)
(* POST /groups/create                                                     *)
(***************************************************************************)
create_group(w) ==
    LET group_name == w.req.group
        budget == w.req.amount
        creator == w.payload.sub
        members == IF w.add_creator THEN <<creator>> ELSE <<>>
        \* the record stored before the split is computed
        stored == [keys |-> FullKeys, admin |-> creator, budget |-> budget,
                   members |-> members, split_amount |-> 0, payments |-> EmptyDict]
    IN  /\ pending' = pending \ {w}
        /\ IF group_name \in DOMAIN fake_groups_db
           THEN /\ resp' = Answer(w.req, 400)
                /\ UNCHANGED <<fake_users_db, fake_groups_db, tokens, now>>
           ELSE IF Len(members) = 0
           THEN \* budget / 0 raises ZeroDivisionError; the record stays stored
                /\ fake_groups_db' = Put(fake_groups_db, group_name, stored)
                /\ resp' = Answer(w.req, 500)
                /\ UNCHANGED <<fake_users_db, tokens, now>>
           ELSE \* budget / 1, not rounded
                /\ fake_groups_db' = Put(fake_groups_db, group_name,
                       [stored EXCEPT !.split_amount = budget,
                                      !.payments = [m \in {creator} |-> DefaultPayment]])
                /\ resp' = Answer(w.req, 200)
                /\ UNCHANGED <<fake_users_db, tokens, now>>

(***************************************************************************)
(* POST /groups/add-user                                                   *)
(***************************************************************************)
\* for m in group["members"]: group["payments"].setdefault(m, default)
SetDefaultPayments(payments, members) ==
    [m \in (DOMAIN payments) \cup {members[i] : i \in 1..Len(members)} |->
        IF m \in DOMAIN payments THEN payments[m] ELSE DefaultPayment]

add_user_to_group(username, group_name) ==
    LET req == Request("add_user", NoToken, group_name, username, "", 0)
    IN  IF username \notin DOMAIN fake_users_db
        THEN /\ resp' = Answer(req, 404)
             /\ UNCHANGED <<fake_users_db, fake_groups_db, tokens, now>>
        ELSE IF group_name \notin DOMAIN fake_groups_db
        THEN /\ resp' = Answer(req, 404)
             /\ UNCHANGED <<fake_users_db, fake_groups_db, tokens, now>>
        ELSE LET group == fake_groups_db[group_name]
                 isNew == ~InSeq(username, group.members)
                 members == IF isNew THEN Append(group.members, username)
                            ELSE group.members
                 users == IF isNew
                          THEN [fake_users_db EXCEPT ![username].groups =
                                    Append(@, group_name)]
                          ELSE fake_users_db
             IN  IF "budget" \notin group.keys
                 THEN \* group["budget"] raises KeyError after the append
                      /\ fake_users_db' = users
                      /\ fake_groups_db' = [fake_groups_db EXCEPT
                             ![group_name].members = members]
                      /\ resp' = Answer(req, 500)
                      /\ UNCHANGED <<tokens, now>>
                 ELSE /\ fake_users_db' = users
                      /\ fake_groups_db' = [fake_groups_db EXCEPT
                             ![group_name].members = members,
                             ![group_name].split_amount =
                                 Round2(group.budget, Len(members)),
                             ![group_name].payments =
                                 SetDefaultPayments(group.payments, members)]
                      /\ resp' = Answer(req, 200)
                      /\ UNCHANGED <<tokens, now>>

(***************************************************************************)
(* POST /groups/add-user served by concurrent worker threads: the handler  *)
(* holds no lock, so a request is a sequence of steps, one for each read   *)
(* or write of the shared dicts, between which the other requests' steps   *)
(* can fall.                                                               *)
(***************************************************************************)
\* the lookups and the membership test (split.py:150-155); no step of an
\* add-user request adds or removes a user or a group, or removes a member
add_user_receive(c, username, group_name) ==
    LET req == Request("add_user", NoToken, group_name, username, "", 0)
    IN  /\ calls[c].pc = "idle"
        /\ IF username \notin DOMAIN fake_users_db \/ group_name \notin DOMAIN fake_groups_db
           THEN /\ resp' = Answer(req, 404)
                /\ UNCHANGED calls
           ELSE /\ calls' = [calls EXCEPT ![c] =
                       [pc |-> IF InSeq(username, fake_groups_db[group_name].members)
                               THEN "count" ELSE "append_member",
                        username |-> username, group_name |-> group_name,
                        total_members |-> 0, next_member |-> 0]]
                /\ UNCHANGED resp
        /\ UNCHANGED <<fake_users_db, fake_groups_db, tokens, now>>

\* group["members"].append(username)
add_user_append_member(c) ==
    LET call == calls[c]
    IN  /\ call.pc = "append_member"
        /\ fake_groups_db' = [fake_groups_db EXCEPT
               ![call.group_name].members = Append(@, call.username)]
        /\ calls' = [calls EXCEPT ![c].pc = "append_group"]
        /\ UNCHANGED <<fake_users_db, tokens, now, resp>>

\* fake_users_db[username]["groups"].append(group_name)
add_user_append_group(c) ==
    LET call == calls[c]
    IN  /\ call.pc = "append_group"
        /\ fake_users_db' = [fake_users_db EXCEPT
               ![call.username].groups = Append(@, call.group_name)]
        /\ calls' = [calls EXCEPT ![c].pc = "count"]
        /\ UNCHANGED <<fake_groups_db, tokens, now, resp>>

\* total_members = len(group["members"])
add_user_count(c) ==
    LET call == calls[c]
    IN  /\ call.pc = "count"
        /\ calls' = [calls EXCEPT ![c].pc = "split",
                         ![c].total_members = Len(fake_groups_db[call.group_name].members)]
        /\ UNCHANGED <<fake_users_db, fake_groups_db, tokens, now, resp>>

\* group["split_amount"] = round(group["budget"] / total_members, 2)
add_user_write_split(c) ==
    LET call == calls[c]
        group == fake_groups_db[call.group_name]
        req == Request("add_user", NoToken, call.group_name, call.username, "", 0)
    IN  /\ call.pc = "split"
        /\ IF "budget" \notin group.keys
           THEN \* KeyError: the request ends here
                /\ resp' = Answer(req, 500)
                /\ calls' = [calls EXCEPT ![c] = IdleCall]
                /\ UNCHANGED fake_groups_db
           ELSE /\ fake_groups_db' = [fake_groups_db EXCEPT
                       ![call.group_name].split_amount =
                           Round2(group.budget, call.total_members)]
                /\ calls' = [calls EXCEPT ![c].pc = "payments", ![c].next_member = 1]
                /\ UNCHANGED resp
        /\ UNCHANGED <<fake_users_db, tokens, now>>

\* one turn of the loop over group["members"], which reads the list as it is
\* at that turn: setdefault for the next member, or the end of the loop and
\* the answer
add_user_payments(c) ==
    LET call == calls[c]
        group == fake_groups_db[call.group_name]
        req == Request("add_user", NoToken, call.group_name, call.username, "", 0)
    IN  /\ call.pc = "payments"
        /\ IF call.next_member <= Len(group.members)
           THEN /\ fake_groups_db' = [fake_groups_db EXCEPT
                       ![call.group_name].payments =
                           SetDefaultPayments(@, <<group.members[call.next_member]>>)]
                /\ calls' = [calls EXCEPT ![c].next_member = @ + 1]
                /\ UNCHANGED resp
           ELSE /\ resp' = Answer(req, 200)
                /\ calls' = [calls EXCEPT ![c] = IdleCall]
                /\ UNCHANGED fake_groups_db
        /\ UNCHANGED <<fake_users_db, tokens, now>>

(***************************************************************************)
(* POST /groups/{group_name}/pay                                           *)
(***************************************************************************)
\* a mutation of NotPartOfGroup: only the group's existence is tested
NotPartOfGroupExistsOnly(username, group_name) ==
    group_name \notin DOMAIN fake_groups_db

\* not group or username not in group["members"]
NotPartOfGroup(username, group_name) ==
    \/ group_name \notin DOMAIN fake_groups_db
    \/ ~InSeq(username, fake_groups_db[group_name].members)

pay_share(w) ==
    LET group_name == w.req.group
        amount == w.req.amount
        username == w.payload.sub
        unchanged == UNCHANGED <<fake_users_db, fake_groups_db, tokens, now>>
    IN  /\ pending' = pending \ {w}
        /\ IF NotPartOfGroup(username, group_name)
           THEN resp' = Answer(w.req, 403) /\ unchanged
           ELSE LET group == fake_groups_db[group_name]
                IN  IF "split_amount" \notin group.keys
                    THEN resp' = Answer(w.req, 500) /\ unchanged    \* KeyError
                    ELSE IF username \notin DOMAIN group.payments
                    THEN resp' = Answer(w.req, 500) /\ unchanged    \* KeyError
                    ELSE IF amount > group.split_amount
                    THEN resp' = Answer(w.req, 400) /\ unchanged
                    ELSE /\ fake_groups_db' = [fake_groups_db EXCEPT
                                ![group_name].payments[username] =
                                    [paid_amount |-> amount, status |-> "pending_approval"]]
                         /\ resp' = Answer(w.req, 200)
                         /\ UNCHANGED <<fake_users_db, tokens, now>>

(***************************************************************************)
(* POST /groups/{group_name}/approve                                       *)
(***************************************************************************)
\* a mutation of DecidedStatus: approve does not compare the amount paid
DecidedStatusAnyAmount(action, payment, split) ==
    IF action = "approve" THEN "approved"
    ELSE IF action = "deny" THEN "denied"
    ELSE "pending"

\* a mutation of DecidedStatus: an approved payment stays approved
DecidedStatusApprovedKept(action, payment, split) ==
    IF payment.status = "approved" THEN "approved"
    ELSE IF action = "approve" /\ payment.paid_amount = split THEN "approved"
    ELSE IF action = "deny" THEN "denied"
    ELSE "pending"

\* a mutation of DecidedStatus: an unrecognised action keeps the status
DecidedStatusUnknownKept(action, payment, split) ==
    IF action = "approve" /\ payment.paid_amount = split THEN "approved"
    ELSE IF action = "deny" THEN "denied"
    ELSE IF action = "approve" THEN "pending"
    ELSE payment.status

\* the status approve_payment writes
DecidedStatus(action, payment, split) ==
    IF action = "approve" /\ payment.paid_amount = split THEN "approved"
    ELSE IF action = "deny" THEN "denied"
    ELSE "pending"

approve_payment(w) ==
    LET group_name == w.req.group
        username == w.req.username
        action == w.req.action
        payload == w.payload
        unchanged == UNCHANGED <<fake_users_db, fake_groups_db, tokens, now>>
    IN  /\ pending' = pending \ {w}
        /\ IF group_name \notin DOMAIN fake_groups_db
           THEN resp' = Answer(w.req, 404) /\ unchanged
           ELSE LET group == fake_groups_db[group_name]
                IN  IF "admin" \notin group.keys
                    THEN resp' = Answer(w.req, 500) /\ unchanged    \* KeyError
                    ELSE IF payload.sub # group.admin
                    THEN resp' = Answer(w.req, 403) /\ unchanged
                    ELSE IF username \notin DOMAIN group.payments
                    THEN resp' = Answer(w.req, 404) /\ unchanged
                    ELSE /\ fake_groups_db' = [fake_groups_db EXCEPT
                                ![group_name].payments[username].status =
                                    DecidedStatus(action, group.payments[username],
                                                  group.split_amount)]
                         /\ resp' = Answer(w.req, 200)
                         /\ UNCHANGED <<fake_users_db, tokens, now>>

(***************************************************************************)
(* GET /groups/{group_name}/status, GET /groups                            *)
(***************************************************************************)
\* a mutation of group_status: membership is read from the token's groups claim
group_statusByClaim(w) ==
    LET group_name == w.req.group
        code == IF group_name \notin DOMAIN fake_groups_db THEN 404
                ELSE IF ~InSeq(group_name, w.payload.groups) THEN 403
                ELSE 200
    IN  /\ pending' = pending \ {w}
        /\ resp' = Answer(w.req, code)
        /\ UNCHANGED <<fake_users_db, fake_groups_db, tokens, now>>

group_status(w) ==
    LET group_name == w.req.group
        code == IF group_name \notin DOMAIN fake_groups_db THEN 404
                ELSE IF ~InSeq(w.payload.sub, fake_groups_db[group_name].members) THEN 403
                ELSE 200
    IN  /\ pending' = pending \ {w}
        /\ resp' = Answer(w.req, code)
        /\ UNCHANGED <<fake_users_db, fake_groups_db, tokens, now>>

list_groups ==
    /\ resp' = Answer(Request("list_groups", NoToken, "", "", "", 0), 200)
    /\ UNCHANGED <<fake_users_db, fake_groups_db, tokens, now>>

(***************************************************************************)
(* The clock moves on to a later instant.                                  *)
(***************************************************************************)
Tick ==
    /\ \E t \in ClockInstants : t > now /\ now' = t
    /\ resp' = Answer(Request("tick", NoToken, "", "", "", 0), 0)
    /\ UNCHANGED <<fake_users_db, fake_groups_db, tokens, pending, calls, booking_apps>>

(***************************************************************************)
(* The steps of the requests.  A route without a token dependency is one   *)
(* step; a route with one is the step of each dependency (...Depends,      *)
(* ...RequireRole) and then the step of its handler, which takes a request *)
(* whose dependencies have returned.                                       *)
(***************************************************************************)
Register ==
    /\ \E u \in Usernames, p \in Passwords, r \in RoleInputs, gs \in GroupsInputs :
           register(u, p, r, gs)
    /\ UNCHANGED <<pending, calls, booking_apps>>

Login ==
    /\ \E u \in Usernames, p \in Passwords : login(u, p)
    /\ UNCHANGED <<pending, calls, booking_apps>>

RefreshDepends ==
    /\ \E t \in Bearers : \E got \in {get_token_payload(t)} :
           depends_get_token_payload(Request("refresh", t, "", "", "", 0), TRUE, got)
    /\ UNCHANGED <<calls, booking_apps>>

Refresh ==
    /\ \E w \in pending : w.req.op = "refresh" /\ refresh_token(w)
    /\ UNCHANGED <<calls, booking_apps>>

ProtectedDepends ==
    /\ \E t \in Bearers : \E got \in {get_token_payload(t)} :
           depends_get_token_payload(Request("protected", t, "", "", "", 0), TRUE, got)
    /\ UNCHANGED <<calls, booking_apps>>

Protected ==
    /\ \E w \in pending : w.req.op = "protected" /\ protected(w)
    /\ UNCHANGED <<calls, booking_apps>>

ListUsersDepends ==
    /\ \E t \in Bearers \cup {RolelessToken} : \E got \in {get_token_payload(t)} :
           depends_get_token_payload(Request("list_users", t, "", "", "", 0), TRUE, got)
    /\ UNCHANGED <<calls, booking_apps>>

ListUsersRequireRole ==
    /\ \E w \in pending : w.req.op = "list_users" /\ depends_require_role(w, {"admin"})
    /\ UNCHANGED <<calls, booking_apps>>

ListUsers ==
    /\ \E w \in pending : w.req.op = "list_users" /\ list_users(w)
    /\ UNCHANGED <<calls, booking_apps>>

CreateGroupDepends ==
    /\ \E t \in Bearers : \E got \in {get_token_payload(t)} :
           \E g \in GroupNames, b \in BudgetInputs, a \in BOOLEAN :
               depends_get_token_payload(Request("create_group", t, g, "", "", b), a, got)
    /\ UNCHANGED <<calls, booking_apps>>

CreateGroup ==
    /\ \E w \in pending : w.req.op = "create_group" /\ create_group(w)
    /\ UNCHANGED <<calls, booking_apps>>

AddUserToGroup ==
    /\ \E u \in Usernames, g \in GroupNames : add_user_to_group(u, g)
    /\ UNCHANGED <<pending, calls, booking_apps>>

PayShareDepends ==
    /\ \E t \in Bearers : \E got \in {get_token_payload(t)} :
           \E g \in GroupNames, a \in AmountInputs :
               depends_get_token_payload(Request("pay", t, g, "", "", a), TRUE, got)
    /\ UNCHANGED <<calls, booking_apps>>

PayShare ==
    /\ \E w \in pending : w.req.op = "pay" /\ pay_share(w)
    /\ UNCHANGED <<calls, booking_apps>>

ApprovePaymentDepends ==
    /\ \E t \in Bearers : \E got \in {get_token_payload(t)} :
           \E g \in GroupNames, u \in Usernames, a \in ActionInputs :
               depends_get_token_payload(Request("approve", t, g, u, a, 0), TRUE, got)
    /\ UNCHANGED <<calls, booking_apps>>

ApprovePayment ==
    /\ \E w \in pending : w.req.op = "approve" /\ approve_payment(w)
    /\ UNCHANGED <<calls, booking_apps>>

GroupStatusDepends ==
    /\ \E t \in Bearers : \E got \in {get_token_payload(t)} :
           \E g \in GroupNames :
               depends_get_token_payload(Request("status", t, g, "", "", 0), TRUE, got)
    /\ UNCHANGED <<calls, booking_apps>>

GroupStatus ==
    /\ \E w \in pending : w.req.op = "status" /\ group_status(w)
    /\ UNCHANGED <<calls, booking_apps>>

ListGroups ==
    /\ list_groups
    /\ UNCHANGED <<pending, calls, booking_apps>>

\* The registrations and logins of the runs below: users who register with
\* one password and the default role, naming no group or one (the group and
\* payment handlers read neither password nor role), users who register with
\* either role and no group, and logins with that password.
RegisterMember ==
    /\ \E u \in Usernames, gs \in MemberGroupsInputs : register(u, "pw1", "user", gs)
    /\ UNCHANGED <<pending, calls, booking_apps>>

RegisterRole ==
    /\ \E u \in Usernames, r \in RoleInputs : register(u, "pw1", r, <<"">>)
    /\ UNCHANGED <<pending, calls, booking_apps>>

LoginMember ==
    /\ \E u \in Usernames : login(u, "pw1")
    /\ UNCHANGED <<pending, calls, booking_apps>>

\* The group runs: users register, log in, create groups and add each other,
\* from the empty stores.  Up to MaxPending create requests are between
\* dependency and handler at once, and registrations, logins and add-user
\* requests are served at any point.  The clock stands still, so that no
\* token expires.
Next ==
    \/ RegisterMember
    \/ LoginMember
    \/ CreateGroupDepends
    \/ CreateGroup
    \/ AddUserToGroup

Spec == Init /\ [][Next]_vars

\* The account runs: registration with every input, login with either
\* password, the list of groups and the clock.
NextAccounts ==
    \/ Register
    \/ Login
    \/ ListGroups
    \/ Tick

SpecAccounts == Init /\ [][NextAccounts]_vars

\* The authentication runs: registration with either role, login, the routes
\* behind the token dependency and the role gate, and the clock.
NextAuth ==
    \/ RegisterRole
    \/ LoginMember
    \/ ProtectedDepends
    \/ Protected
    \/ ListUsersDepends
    \/ ListUsersRequireRole
    \/ ListUsers
    \/ Tick

SpecAuth == Init /\ [][NextAuth]_vars

\* The membership runs: registration into groups, login, joining a group,
\* the refresh route and the clock.
NextMember ==
    \/ RegisterMember
    \/ LoginMember
    \/ RefreshDepends
    \/ Refresh
    \/ AddUserToGroup
    \/ Tick

SpecMember == Init /\ [][NextMember]_vars

\* The concurrent runs.  They start once the requests that set the stores up
\* have been answered one after the other: alice and bob have registered, and
\* either alice has logged in and created the group with a budget and herself
\* as first member (split.py:124-146), or bob named the group when he
\* registered (split.py:92-94).  From there two threads serve add-user
\* requests step by step; carol is a name nobody registered.  Half of the
\* smaller budget is midway between two cents.
AddUserInputs == Usernames \cup {"carol"}
FundedBudgets == {5, 100}

ConcurrentUser(username, groups) ==
    [username |-> username, password |-> hash_password("pw1"),
     roles |-> <<"user">>, groups |-> groups]

FundedStart ==
    LET payload == [sub |-> "alice", roles |-> <<"user">>, groups |-> <<>>]
        token == create_access_token(payload)
    IN  \E budget \in FundedBudgets :
            /\ fake_users_db = [u \in Usernames |-> ConcurrentUser(u, <<>>)]
            /\ tokens = {token, create_refresh_token(payload)}
            /\ fake_groups_db = [g \in GroupNames |->
                   [keys |-> FullKeys, admin |-> "alice", budget |-> budget,
                    members |-> <<"alice">>, split_amount |-> budget,
                    payments |-> [m \in {"alice"} |-> DefaultPayment]]]
            /\ resp = Answer(Request("create_group", token, "trip", "", "", budget), 200)

LazyStart ==
    /\ fake_users_db = [u \in Usernames |->
           ConcurrentUser(u, IF u = "bob" THEN <<"trip">> ELSE <<>>)]
    /\ tokens = {}
    /\ fake_groups_db = JoinGroups(EmptyDict, <<"trip">>, "bob")
    /\ resp = Answer(Request("register", NoToken, "", "bob", "", 0), 200)

InitConcurrent ==
    /\ main = MainStart
    /\ enhanced = EnhancedStart
    /\ calls = [c \in CallIds |-> IdleCall]
    /\ now = 0
    /\ pending = {}
    /\ FundedStart \/ LazyStart

AddUserReceive ==
    /\ \E c \in CallIds, u \in AddUserInputs, g \in GroupNames : add_user_receive(c, u, g)
    /\ UNCHANGED <<pending, booking_apps>>

AddUserAppendMember ==
    /\ \E c \in CallIds : add_user_append_member(c)
    /\ UNCHANGED <<pending, booking_apps>>

AddUserAppendGroup ==
    /\ \E c \in CallIds : add_user_append_group(c)
    /\ UNCHANGED <<pending, booking_apps>>

AddUserCount ==
    /\ \E c \in CallIds : add_user_count(c)
    /\ UNCHANGED <<pending, booking_apps>>

AddUserWriteSplit ==
    /\ \E c \in CallIds : add_user_write_split(c)
    /\ UNCHANGED <<pending, booking_apps>>

AddUserPayments ==
    /\ \E c \in CallIds : add_user_payments(c)
    /\ UNCHANGED <<pending, booking_apps>>

NextConcurrent ==
    \/ AddUserReceive
    \/ AddUserAppendMember
    \/ AddUserAppendGroup
    \/ AddUserCount
    \/ AddUserWriteSplit
    \/ AddUserPayments

SpecConcurrent == InitConcurrent /\ [][NextConcurrent]_vars

\* The start states of the runs below.  alice and bob have registered, and
\* the users in logged have logged in, one request after the other, at the
\* start of the clock; groups[u] is the list of groups u named when
\* registering (split.py:86).
LoggedIn(groups, logged) ==
    /\ fake_users_db = [u \in Usernames |-> ConcurrentUser(u, groups[u])]
    /\ tokens = UNION {
           LET payload == [sub |-> u, roles |-> <<"user">>, groups |-> groups[u]]
           IN  {create_access_token(payload), create_refresh_token(payload)}
           : u \in logged}

NoGroups == [u \in Usernames |-> <<>>]

BobNamedGroup == [u \in Usernames |-> IF u = "bob" THEN <<"trip">> ELSE <<>>]

\* The group alice has created with a budget of 100 and herself as first
\* member (split.py:124-146).
CreatedGroup ==
    [keys |-> FullKeys, admin |-> "alice", budget |-> 100,
     members |-> <<"alice">>, split_amount |-> 100,
     payments |-> [m \in {"alice"} |-> DefaultPayment]]

CreatedAnswer ==
    Answer(Request("create_group",
                   create_access_token([sub |-> "alice", roles |-> <<"user">>, groups |-> <<>>]),
                   "trip", "", "", 100), 200)

\* Nobody named a group.
NoGroupsStart ==
    /\ LoggedIn(NoGroups, Usernames)
    /\ fake_groups_db = EmptyDict
    /\ resp = Answer(Request("login", NoToken, "", "bob", "", 0), 200)

\* bob named the group when he registered (split.py:92-94).
NamedGroupStart ==
    /\ LoggedIn(BobNamedGroup, Usernames)
    /\ fake_groups_db = JoinGroups(EmptyDict, <<"trip">>, "bob")
    /\ resp = Answer(Request("login", NoToken, "", "bob", "", 0), 200)

\* alice has created the group.
CreatedGroupStart ==
    /\ LoggedIn(NoGroups, Usernames)
    /\ fake_groups_db = [g \in GroupNames |-> CreatedGroup]
    /\ resp = CreatedAnswer

\* alice has created the group, and then bob has registered naming it and
\* logged in: he is a member without a Payment (split.py:92-94).
JoinedGroupStart ==
    /\ LoggedIn(BobNamedGroup, Usernames)
    /\ fake_groups_db = JoinGroups([g \in GroupNames |-> CreatedGroup], <<"trip">>, "bob")
    /\ resp = Answer(Request("login", NoToken, "", "bob", "", 0), 200)

\* Only alice has logged in, and she has created the group.
AdminCreatedStart ==
    /\ LoggedIn(NoGroups, {"alice"})
    /\ fake_groups_db = [g \in GroupNames |-> CreatedGroup]
    /\ resp = CreatedAnswer

\* Only alice has logged in, after bob named the group when he registered.
AdminNamedStart ==
    /\ LoggedIn(BobNamedGroup, {"alice"})
    /\ fake_groups_db = JoinGroups(EmptyDict, <<"trip">>, "bob")
    /\ resp = Answer(Request("login", NoToken, "", "alice", "", 0), 200)

Started ==
    /\ main = MainStart
    /\ enhanced = EnhancedStart
    /\ calls = [c \in CallIds |-> IdleCall]
    /\ now = 0
    /\ pending = {}

InitLoggedIn ==
    /\ Started
    /\ NoGroupsStart \/ NamedGroupStart \/ CreatedGroupStart \/ JoinedGroupStart

InitSettle ==
    /\ Started
    /\ AdminCreatedStart \/ AdminNamedStart

\* The payment runs: both users are logged in; they join and pay while the
\* clock moves.  A pay request verifies its bearer token in one step and runs
\* its handler in a later one, and up to MaxPending of them are between the
\* two at once.
NextPay ==
    \/ AddUserToGroup
    \/ PayShareDepends
    \/ PayShare
    \/ Tick

SpecPay == InitLoggedIn /\ [][NextPay]_vars

\* The settlement runs: alice, the one user logged in, adds bob, pays and
\* decides on payments while the clock moves, with up to MaxPending pay and
\* approve requests between dependency and handler at once.
NextSettle ==
    \/ AddUserToGroup
    \/ PayShareDepends
    \/ PayShare
    \/ ApprovePaymentDepends
    \/ ApprovePayment
    \/ Tick

SpecSettle == InitSettle /\ [][NextSettle]_vars

\* The status runs, from the starts of the payment runs: users create the
\* group, join it and ask for its status while the clock moves.
NextStatus ==
    \/ CreateGroupDepends
    \/ CreateGroup
    \/ AddUserToGroup
    \/ GroupStatusDepends
    \/ GroupStatus
    \/ Tick

SpecStatus == InitLoggedIn /\ [][NextStatus]_vars

(***************************************************************************)
(* main.py: the basic movie booking system.                                *)
(***************************************************************************)
\* Showtime.available_seats at creation
AVAILABLE_SEATS == 50

\* the response of a request: what was asked and the status code
MainAnswer(op, id, seats, code) == [op |-> op, id |-> id, seats |-> seats, code |-> code]

main_add_movie ==
    /\ main.movie_counter <= MaxMovies
    /\ main' = [main EXCEPT
           !.movies = Put(@, main.movie_counter, [id |-> main.movie_counter]),
           !.movie_counter = @ + 1,
           !.response = MainAnswer("add_movie", main.movie_counter, 0, 201)]

main_get_showtimes(movie_id) ==
    main' = [main EXCEPT !.response =
        MainAnswer("get_showtimes", movie_id, 0,
                   IF movie_id \notin DOMAIN main.movies THEN 404 ELSE 200)]

main_add_showtime(movie_id, price) ==
    IF price <= 0            \* ShowtimeCreate.price: Field(..., gt=0)
    THEN main' = [main EXCEPT !.response = MainAnswer("add_showtime", movie_id, 0, 422)]
    ELSE IF movie_id \notin DOMAIN main.movies
    THEN main' = [main EXCEPT !.response = MainAnswer("add_showtime", movie_id, 0, 404)]
    ELSE /\ main.showtime_counter <= MaxShowtimes
         /\ main' = [main EXCEPT
                !.showtimes = Put(@, main.showtime_counter,
                    [id |-> main.showtime_counter, movie_id |-> movie_id,
                     price |-> price, available_seats |-> AVAILABLE_SEATS]),
                !.showtime_counter = @ + 1,
                !.response = MainAnswer("add_showtime", movie_id, 0, 201)]

\* a mutation of main_book_tickets: the seats left are not compared
main_book_ticketsNoSeatCheck(showtime_id, seats_booked) ==
    IF seats_booked <= 0
    THEN main' = [main EXCEPT !.response = MainAnswer("book", showtime_id, seats_booked, 422)]
    ELSE IF showtime_id \notin DOMAIN main.showtimes
    THEN main' = [main EXCEPT !.response = MainAnswer("book", showtime_id, seats_booked, 404)]
    ELSE LET showtime == main.showtimes[showtime_id]
         IN  /\ main.booking_counter <= MaxBookings
             /\ main' = [main EXCEPT
                    !.bookings = Put(@, main.booking_counter,
                        [id |-> main.booking_counter, showtime_id |-> showtime_id,
                         seats_booked |-> seats_booked,
                         total_amount |-> seats_booked * showtime.price]),
                    !.showtimes[showtime_id].available_seats = @ - seats_booked,
                    !.booking_counter = @ + 1,
                    !.response = MainAnswer("book", showtime_id, seats_booked, 201)]

main_book_tickets(showtime_id, seats_booked) ==
    IF seats_booked <= 0     \* BookingCreate.seats_booked: Field(..., gt=0)
    THEN main' = [main EXCEPT !.response = MainAnswer("book", showtime_id, seats_booked, 422)]
    ELSE IF showtime_id \notin DOMAIN main.showtimes
    THEN main' = [main EXCEPT !.response = MainAnswer("book", showtime_id, seats_booked, 404)]
    ELSE LET showtime == main.showtimes[showtime_id]
         IN  IF seats_booked > showtime.available_seats
             THEN main' = [main EXCEPT !.response =
                              MainAnswer("book", showtime_id, seats_booked, 400)]
             ELSE /\ main.booking_counter <= MaxBookings
                  /\ main' = [main EXCEPT
                         !.bookings = Put(@, main.booking_counter,
                             [id |-> main.booking_counter, showtime_id |-> showtime_id,
                              seats_booked |-> seats_booked,
                              total_amount |-> seats_booked * showtime.price]),
                         !.showtimes[showtime_id].available_seats = @ - seats_booked,
                         !.booking_counter = @ + 1,
                         !.response = MainAnswer("book", showtime_id, seats_booked, 201)]

main_get_booking(booking_id) ==
    main' = [main EXCEPT !.response =
        MainAnswer("get_booking", booking_id, 0,
                   IF booking_id \notin DOMAIN main.bookings THEN 404 ELSE 200)]

\* bookings.pop(booking_id)
Pop(f, k) == [x \in (DOMAIN f) \ {k} |-> f[x]]

main_cancel_booking(booking_id) ==
    IF booking_id \notin DOMAIN main.bookings
    THEN main' = [main EXCEPT !.response = MainAnswer("cancel", booking_id, 0, 404)]
    ELSE LET booking == main.bookings[booking_id]
         IN  main' = [main EXCEPT
                 !.bookings = Pop(@, booking_id),
                 !.showtimes[booking.showtime_id].available_seats = @ + booking.seats_booked,
                 !.response = MainAnswer("cancel", booking_id, booking.seats_booked, 200)]

MainAddMovie == main_add_movie /\ UNCHANGED <<split_app, enhanced>>

MainGetShowtimes ==
    /\ \E m \in MovieIds : main_get_showtimes(m)
    /\ UNCHANGED <<split_app, enhanced>>

MainAddShowtime ==
    /\ \E m \in MovieIds, p \in PriceInputs : main_add_showtime(m, p)
    /\ UNCHANGED <<split_app, enhanced>>

MainBookTickets ==
    /\ \E s \in ShowtimeIds, n \in SeatsInputs : main_book_tickets(s, n)
    /\ UNCHANGED <<split_app, enhanced>>

MainGetBooking ==
    /\ \E b \in BookingIds : main_get_booking(b)
    /\ UNCHANGED <<split_app, enhanced>>

MainCancelBooking ==
    /\ \E b \in BookingIds : main_cancel_booking(b)
    /\ UNCHANGED <<split_app, enhanced>>

NextMain ==
    \/ MainAddMovie
    \/ MainGetShowtimes
    \/ MainAddShowtime
    \/ MainBookTickets
    \/ MainGetBooking
    \/ MainCancelBooking

SpecMain == Init /\ [][NextMain]_vars

(***************************************************************************)
(* enhancedversion.py: the enhanced movie booking system.                  *)
(***************************************************************************)
\* the sign of (d / total_seats) * 100, computed in doubles, minus the exact
\* 100 d / total_seats, for d > 0.
\*   the quotient is the double M * 2^-s with M = round(d * 2^s / total_seats);
\*   the product is the double P * 2^(w-s) with P = round(100 M / 2^w), where
\*   w is 6 when 100 M < 2^59 and 7 otherwise;
\*   total P 2^w - 100 d 2^s = 100 * (total M - d 2^s) + total * (P 2^w - 100 M).
OccupancySide(d, total_seats) ==
    LET j == BinaryExponent(d, total_seats)
        s == 52 + j
        rem1 == ShiftMod(d % (256 * total_seats), s, 256 * total_seats)
        r1 == rem1 % total_seats
        up1 == RoundsUp(r1, total_seats, rem1 \div total_seats)
        e1 == IF up1 THEN total_seats - r1 ELSE 0 - r1
        M == ((rem1 \div total_seats) + (IF up1 THEN 1 ELSE 0)) % 256   \* M mod 256
        \* 100 d 2^j against 128 total_seats; when they are equal the
        \* rounding of M decides
        left == IF j >= 0 THEN 100 * d * 2^j ELSE 100 * d
        right == IF j >= 0 THEN 128 * total_seats ELSE 128 * total_seats * 2^(0 - j)
        below == left < right \/ (left = right /\ e1 < 0)
        w == IF below THEN 6 ELSE 7
        rem2 == (100 * M) % 2^(w + 1)
        r2 == rem2 % 2^w
        e2 == IF RoundsUp(r2, 2^w, rem2 \div 2^w) THEN 2^w - r2 ELSE 0 - r2
    IN  100 * e1 + total_seats * e2

\* round(((total_seats - available_seats) / total_seats) * 100, 2); the
\* percentage carries two decimals: it is kept in hundredths of a percent
get_occupancy_percentage(available_seats, total_seats) ==
    LET taken == total_seats - available_seats
        d == IF taken < 0 THEN 0 - taken ELSE taken
        q == (d * 10000) \div total_seats
        r == (d * 10000) % total_seats
        side == IF d = 0 THEN 0 ELSE OccupancySide(d, total_seats)
        hundredths == IF 2 * r < total_seats THEN q
                      ELSE IF 2 * r > total_seats THEN q + 1
                      ELSE IF side > 0 THEN q + 1
                      ELSE IF side < 0 THEN q
                      ELSE IF q % 2 = 0 THEN q ELSE q + 1
    IN  IF taken < 0 THEN 0 - hundredths ELSE hundredths

calculate_showtime_status(available_seats, total_seats) ==
    IF available_seats = 0 THEN "Sold Out"
    ELSE IF (total_seats - available_seats) * 100 >= 80 * total_seats THEN "Nearly Full"
    ELSE "Available"

enhanced_add_movie ==
    /\ enhanced.movie_counter <= MaxMovies
    /\ enhanced' = [enhanced EXCEPT
           !.movies = Put(@, enhanced.movie_counter, [id |-> enhanced.movie_counter]),
           !.movie_counter = @ + 1,
           !.response = MainAnswer("add_movie", enhanced.movie_counter, 0, 201)]

enhanced_get_showtimes(movie_id) ==
    enhanced' = [enhanced EXCEPT !.response =
        MainAnswer("get_showtimes", movie_id, 0,
                   IF movie_id \notin DOMAIN enhanced.movies THEN 404 ELSE 200)]

enhanced_add_showtime(movie_id, price, total_seats) ==
    \* ShowtimeCreate: price Field(..., gt=0), total_seats Field(50, ge=10, le=500)
    IF price <= 0 \/ total_seats < 10 \/ total_seats > 500
    THEN enhanced' = [enhanced EXCEPT !.response =
                         MainAnswer("add_showtime", movie_id, total_seats, 422)]
    ELSE IF movie_id \notin DOMAIN enhanced.movies
    THEN enhanced' = [enhanced EXCEPT !.response =
                         MainAnswer("add_showtime", movie_id, total_seats, 404)]
    ELSE /\ enhanced.showtime_counter <= MaxShowtimes
         /\ enhanced' = [enhanced EXCEPT
                !.showtimes = Put(@, enhanced.showtime_counter,
                    [id |-> enhanced.showtime_counter, movie_id |-> movie_id,
                     price |-> price, total_seats |-> total_seats,
                     available_seats |-> total_seats, booked_seats |-> 0,
                     occupancy_percentage |-> 0, status |-> "Available"]),
                !.showtime_counter = @ + 1,
                !.response = MainAnswer("add_showtime", movie_id, total_seats, 201)]

enhanced_book_tickets(showtime_id, seats_booked) ==
    IF seats_booked <= 0     \* BookingCreate.seats_booked: Field(..., gt=0)
    THEN enhanced' = [enhanced EXCEPT !.response =
                         MainAnswer("book", showtime_id, seats_booked, 422)]
    ELSE IF showtime_id \notin DOMAIN enhanced.showtimes
    THEN enhanced' = [enhanced EXCEPT !.response =
                         MainAnswer("book", showtime_id, seats_booked, 404)]
    ELSE LET showtime == enhanced.showtimes[showtime_id]
             remaining_seats == showtime.available_seats - seats_booked
         IN  IF seats_booked > showtime.available_seats
             THEN enhanced' = [enhanced EXCEPT !.response =
                                  MainAnswer("book", showtime_id, seats_booked, 400)]
             ELSE /\ enhanced.booking_counter <= MaxBookings
                  /\ enhanced' = [enhanced EXCEPT
                         !.bookings = Put(@, enhanced.booking_counter,
                             [id |-> enhanced.booking_counter, showtime_id |-> showtime_id,
                              seats_booked |-> seats_booked,
                              price_per_seat |-> showtime.price,
                              total_amount |-> seats_booked * showtime.price,
                              remaining_seats_after_booking |-> remaining_seats,
                              booking_status |-> "Confirmed"]),
                         !.showtimes[showtime_id] = [showtime EXCEPT
                             !.available_seats = remaining_seats,
                             !.booked_seats = @ + seats_booked,
                             !.occupancy_percentage =
                                 get_occupancy_percentage(remaining_seats, showtime.total_seats),
                             !.status =
                                 calculate_showtime_status(remaining_seats, showtime.total_seats)],
                         !.booking_counter = @ + 1,
                         !.response = MainAnswer("book", showtime_id, seats_booked, 201)]

enhanced_get_booking(booking_id) ==
    enhanced' = [enhanced EXCEPT !.response =
        MainAnswer("get_booking", booking_id, 0,
                   IF booking_id \notin DOMAIN enhanced.bookings THEN 404 ELSE 200)]

\* the booking stays in bookings and its booking_status is not looked at
enhanced_cancel_booking(booking_id) ==
    IF booking_id \notin DOMAIN enhanced.bookings
    THEN enhanced' = [enhanced EXCEPT !.response = MainAnswer("cancel", booking_id, 0, 404)]
    ELSE LET booking == enhanced.bookings[booking_id]
             showtime == enhanced.showtimes[booking.showtime_id]
             available == showtime.available_seats + booking.seats_booked
         IN  /\ available <= MaxAvailable
             /\ enhanced' = [enhanced EXCEPT
                    !.showtimes[booking.showtime_id] = [showtime EXCEPT
                        !.available_seats = available,
                        !.booked_seats = @ - booking.seats_booked,
                        !.occupancy_percentage =
                            get_occupancy_percentage(available, showtime.total_seats),
                        !.status = calculate_showtime_status(available, showtime.total_seats)],
                    !.bookings[booking_id].booking_status = "Cancelled",
                    !.response = MainAnswer("cancel", booking_id, booking.seats_booked, 200)]

EnhancedAddMovie == enhanced_add_movie /\ UNCHANGED <<split_app, main>>

EnhancedGetShowtimes ==
    /\ \E m \in MovieIds : enhanced_get_showtimes(m)
    /\ UNCHANGED <<split_app, main>>

EnhancedAddShowtime ==
    /\ \E m \in MovieIds, p \in PriceInputs, n \in TotalSeatsInputs :
           enhanced_add_showtime(m, p, n)
    /\ UNCHANGED <<split_app, main>>

EnhancedBookTickets ==
    /\ \E s \in ShowtimeIds, n \in EnhancedSeatsInputs : enhanced_book_tickets(s, n)
    /\ UNCHANGED <<split_app, main>>

EnhancedGetBooking ==
    /\ \E b \in BookingIds : enhanced_get_booking(b)
    /\ UNCHANGED <<split_app, main>>

EnhancedCancelBooking ==
    /\ \E b \in BookingIds : enhanced_cancel_booking(b)
    /\ UNCHANGED <<split_app, main>>

NextEnhanced ==
    \/ EnhancedAddMovie
    \/ EnhancedGetShowtimes
    \/ EnhancedAddShowtime
    \/ EnhancedBookTickets
    \/ EnhancedGetBooking
    \/ EnhancedCancelBooking

SpecEnhanced == Init /\ [][NextEnhanced]_vars

(***************************************************************************)
(* Reading the stores.                                                     *)
(***************************************************************************)
GroupsStored == DOMAIN fake_groups_db

\* the groups whose record holds a payments dict
Ledgers == {g \in GroupsStored : "payments" \in fake_groups_db[g].keys}

MemberSet(g) ==
    {fake_groups_db[g].members[i] : i \in 1..Len(fake_groups_db[g].members)}

PaymentOf(g, m) == fake_groups_db[g].payments[m]

HasPayment(g, m) == g \in Ledgers /\ m \in DOMAIN fake_groups_db[g].payments

\* the subject claim of a token
Subject(token) == jwt_claims(token).sub

\* the step is the handler's (or the role gate's) answer to a request whose
\* token get_token_payload decoded, at the instant that dependency ran
Authenticated ==
    \E w \in pending : w \notin pending' /\ resp' = Answer(w.req, resp'.code)

\* the bearer token of the last request has expired by now
ExpiredSince(token) == jwt_claims(token).exp <= now

StoresUnchanged == UNCHANGED <<fake_users_db, fake_groups_db>>

AccessOnlyOps == {"protected", "list_users", "create_group", "pay", "approve", "status"}

(***************************************************************************)
(* C1: a request that presents a refresh token to an operation that        *)
(* requires an access token (every protected operation but refresh) is     *)
(* answered 401, and the step that answers it leaves both stores as they   *)
(* were.                                                                   *)
(***************************************************************************)
C1_RefreshTokenRejected ==
    [][(/\ resp' # resp
        /\ resp'.op \in AccessOnlyOps
        /\ jwt_claims(resp'.token).token_type = "refresh"
        /\ resp'.code # 0)
           => (resp'.code = 401 /\ StoresUnchanged)]_vars

(***************************************************************************)
(* C2: every member of every group has a Payment record in that group.     *)
(***************************************************************************)
C2_EveryMemberHasPayment ==
    \A g \in GroupsStored : \A m \in MemberSet(g) : HasPayment(g, m)

(***************************************************************************)
(* C3: in every group that has a budget and at least one member,           *)
(* split_amount is budget divided by the number of members, rounded to the *)
(* cent.                                                                   *)
(***************************************************************************)
C3_SplitIsBudgetOverMembers ==
    \A g \in GroupsStored :
        LET group == fake_groups_db[g]
        IN  ({"budget", "split_amount"} \subseteq group.keys /\ Len(group.members) >= 1)
                => group.split_amount = Round2(group.budget, Len(group.members))

(***************************************************************************)
(* C4: approved is terminal: a Payment whose status is approved keeps that *)
(* status in every later step.  Stated for groups with a positive budget   *)
(* and for the steps that are not a deny decision, which section 8 of the  *)
(* specification lets reset any status.                                    *)
(***************************************************************************)
C4_ApprovedIsTerminal ==
    [][\A g \in Ledgers : \A m \in DOMAIN fake_groups_db[g].payments :
          (/\ PaymentOf(g, m).status = "approved"
           /\ fake_groups_db[g].budget > 0
           /\ resp'.action # "deny")
              => PaymentOf(g, m)'.status = "approved"]_vars

(***************************************************************************)
(* C5: a step that makes a Payment approved is the handler step of an      *)
(* approve request for that group and member with action approve (a        *)
(* request whose token its dependency decoded at an earlier instant), and  *)
(* in the state that handler step reads, whatever was served since the     *)
(* token was decoded, the Payment's paid_amount equals the group's         *)
(* split_amount.                                                           *)
(***************************************************************************)
C5_ApprovedOnlyOnExactAmount ==
    [][\A g \in Ledgers' : \A m \in DOMAIN fake_groups_db'[g].payments :
          (/\ PaymentOf(g, m)'.status = "approved"
           /\ ~(HasPayment(g, m) /\ PaymentOf(g, m).status = "approved"))
          => /\ resp'.op = "approve" /\ resp'.code = 200
             /\ resp'.action = "approve"
             /\ resp'.group = g /\ resp'.username = m
             /\ Authenticated
             /\ HasPayment(g, m)
             /\ PaymentOf(g, m).paid_amount = fake_groups_db[g].split_amount]_vars

\* a payment of one of two members has been approved by a handler that ran
\* after the admin's token had expired: the clock moved between the
\* dependency and the handler
C5_Witness ==
    /\ resp.op = "approve" /\ resp.code = 200 /\ resp.action = "approve"
    /\ ExpiredSince(resp.token)
    /\ HasPayment(resp.group, resp.username)
    /\ PaymentOf(resp.group, resp.username).status = "approved"
    /\ PaymentOf(resp.group, resp.username).paid_amount > 0
    /\ Len(fake_groups_db[resp.group].members) = 2

(***************************************************************************)
(* C6: only the group's admin decides: a step that makes a Payment         *)
(* approved or denied is an approve request by the group's admin, and an   *)
(* approve request on a stored group by an authenticated identity that is  *)
(* not its admin is answered 403 and leaves the stores unchanged.          *)
(***************************************************************************)
C6_OnlyAdminDecides ==
    [][/\ \A g \in Ledgers' : \A m \in DOMAIN fake_groups_db'[g].payments :
            (/\ PaymentOf(g, m)'.status \in {"approved", "denied"}
             /\ ~(HasPayment(g, m)
                  /\ PaymentOf(g, m).status = PaymentOf(g, m)'.status))
            => /\ resp'.op = "approve" /\ resp'.group = g
               /\ g \in GroupsStored /\ "admin" \in fake_groups_db[g].keys
               /\ Subject(resp'.token) = fake_groups_db[g].admin
       /\ (/\ resp'.op = "approve" /\ Authenticated
           /\ resp'.group \in GroupsStored
           /\ ~(/\ "admin" \in fake_groups_db[resp'.group].keys
                /\ Subject(resp'.token) = fake_groups_db[resp'.group].admin))
          => (resp'.code = 403 /\ StoresUnchanged)]_vars

(***************************************************************************)
(* C7: the handler step of a pay request (its token decoded at an earlier  *)
(* instant) whose subject is not in the group's members in the state that  *)
(* step reads, or whose group is not stored then, answers 403 and leaves   *)
(* the stores unchanged, whatever the membership was when the token was    *)
(* decoded; and a step that changes the paid_amount of a Payment is the    *)
(* handler step of a pay request answered 200 of that member, a member at  *)
(* that step, for that group.                                              *)
(***************************************************************************)
C7_OnlyMembersPay ==
    [][/\ (/\ resp'.op = "pay" /\ Authenticated
           /\ \/ resp'.group \notin GroupsStored
              \/ Subject(resp'.token) \notin MemberSet(resp'.group))
          => (resp'.code = 403 /\ StoresUnchanged)
       /\ \A g \in Ledgers : \A m \in DOMAIN fake_groups_db[g].payments :
            PaymentOf(g, m)'.paid_amount # PaymentOf(g, m).paid_amount
            => /\ resp'.op = "pay" /\ resp'.code = 200
               /\ Authenticated
               /\ resp'.group = g /\ Subject(resp'.token) = m
               /\ m \in MemberSet(g)]_vars

\* a registered user outside the group has been refused by a handler that
\* ran after the user's token had expired, in a group where a member has paid
C7_Witness ==
    /\ resp.op = "pay" /\ resp.code = 403
    /\ ExpiredSince(resp.token)
    /\ Subject(resp.token) \in DOMAIN fake_users_db
    /\ resp.group \in Ledgers
    /\ Subject(resp.token) \notin MemberSet(resp.group)
    /\ \E m \in DOMAIN fake_groups_db[resp.group].payments :
           PaymentOf(resp.group, m).paid_amount > 0

(***************************************************************************)
(* C8: a pay request of a member for more than the group's split_amount is *)
(* answered 400 and leaves the stores unchanged.  Stated for groups with a *)
(* positive budget and a positive split_amount.                            *)
(***************************************************************************)
C8_OverpaymentRejected ==
    [][(/\ resp'.op = "pay" /\ Authenticated
        /\ resp'.group \in GroupsStored
        /\ Subject(resp'.token) \in MemberSet(resp'.group)
        /\ {"budget", "split_amount"} \subseteq fake_groups_db[resp'.group].keys
        /\ fake_groups_db[resp'.group].budget > 0
        /\ fake_groups_db[resp'.group].split_amount > 0
        /\ resp'.amount > fake_groups_db[resp'.group].split_amount)
       => (resp'.code = 400 /\ StoresUnchanged)]_vars

(***************************************************************************)
(* C9: the status of every Payment is one of unpaid, pending_approval,     *)
(* approved, denied.                                                       *)
(***************************************************************************)
C9_StatusInDomain ==
    \A g \in Ledgers : \A m \in DOMAIN fake_groups_db[g].payments :
        PaymentOf(g, m).status \in {"unpaid", "pending_approval", "approved", "denied"}

(***************************************************************************)
(* C10: a create request with budget <= 0 is refused and stores no group,  *)
(* so that no stored group has a budget <= 0.                              *)
(***************************************************************************)
C10_BudgetPositive ==
    /\ (resp.op = "create_group" /\ resp.amount <= 0) => resp.code # 200
    /\ \A g \in GroupsStored :
           "budget" \in fake_groups_db[g].keys => fake_groups_db[g].budget > 0


(***************************************************************************)
(* C11: a create request with a positive budget that leaves the creator    *)
(* out succeeds and stores a group with no members whose split_amount is   *)
(* the budget: no create request with a positive budget is answered 500,   *)
(* and every stored group with a positive budget and no members has        *)
(* split_amount = budget.                                                  *)
(***************************************************************************)
C11_EmptyGroupSplitIsBudget ==
    /\ (resp.op = "create_group" /\ resp.amount > 0) => resp.code # 500
    /\ \A g \in GroupsStored :
           LET group == fake_groups_db[g]
           IN  (/\ {"budget", "split_amount"} \subseteq group.keys
                /\ group.budget > 0 /\ group.members = <<>>)
                   => group.split_amount = group.budget


(***************************************************************************)
(* Reading the token service.                                              *)
(***************************************************************************)
\* the requests that verify their bearer token and do nothing else with it
VerifyingOps == {"protected", "list_users"}

\* the lifetime create_access_token / create_refresh_token give a token
Lifetime(token_type) ==
    IF token_type = "access" THEN ACCESS_TOKEN_EXPIRE_MINUTES
    ELSE REFRESH_TOKEN_EXPIRE_DAYS * MinutesPerDay

\* the step is Depends(get_token_payload) returning the claims of a token
Verified == resp'.op = "get_token_payload" /\ resp'.code = 0

\* the step is Depends(get_token_payload) raising its 401
Refused ==
    /\ resp'.op \in VerifyingOps /\ resp'.code = 401
    /\ resp' # resp /\ pending' = pending

\* the claims login and refresh put in a token for a user record
Issued(sub, roles, groups, token_type, exp) ==
    [k \in {"sub", "roles", "groups", "token_type", "exp"} |->
        IF k = "sub" THEN sub
        ELSE IF k = "roles" THEN roles
        ELSE IF k = "groups" THEN groups
        ELSE IF k = "token_type" THEN token_type
        ELSE exp]

(***************************************************************************)
(* C12: the clock only advances.  Login issues an access and a refresh     *)
(* token whose decoded claims are the subject, roles and groups of the     *)
(* user record, the type and exp = now + lifetime, and an issued token     *)
(* stays issued unchanged.  A verification (the get_token_payload step of  *)
(* a request, judged at the instant of that step) of an issued token       *)
(* before its exp passes and hands the handler exactly the claims the      *)
(* token was issued with; a verification after its exp is answered 401     *)
(* "Token expired"; and a token that has failed for expiry fails for       *)
(* expiry ever after.  The handler runs at a later instant: GET /protected *)
(* answers 200 whenever its verification passed.                           *)
(***************************************************************************)
C12_TokenLifecycle ==
    /\ [](\A t \in tokens :
             \A claims \in {jwt_claims(t)}, got \in {get_token_payload(t)} :
                 /\ DOMAIN claims = {"sub", "roles", "groups", "token_type", "exp"}
                 /\ now < claims.exp => got.status_code = 0
                 /\ now > claims.exp =>
                       (got.status_code = 401 /\ got.detail = "Token expired"))
    /\ [][/\ now' >= now
          /\ tokens \subseteq tokens'
          /\ (resp'.op = "login" /\ resp'.code = 200) =>
                LET user == fake_users_db[resp'.username]
                IN  \A ty \in {"access", "refresh"} :
                        \E t \in tokens' :
                           /\ get_token_payload(t).status_code = 0
                           /\ get_token_payload(t).payload =
                                 Issued(user.username, user.roles, user.groups,
                                        ty, now + Lifetime(ty))
          /\ (Verified /\ resp'.token \in tokens) =>
                \A claims \in {jwt_claims(resp'.token)} :
                    /\ now < claims.exp
                    /\ \E w \in pending' \ pending :
                          /\ w.req.token = resp'.token
                          /\ w.payload = Issued(claims.sub, claims.roles,
                                  claims.groups, claims.token_type, claims.exp)
          /\ (Refused /\ resp'.token \in tokens) =>
                /\ now > jwt_claims(resp'.token).exp
                /\ get_token_payload(resp'.token).detail = "Token expired"
          /\ \A t \in tokens :
                token_error(t) = "Token expired" => token_error(t)' = "Token expired"
          /\ (resp'.op = "protected" /\ Authenticated) => resp'.code = 200]_vars

\* a verification of an issued token after its exp has been refused while a
\* request whose token was verified before its exp, and has expired since,
\* waits for its handler with the claims the token was issued with
C12_Witness ==
    /\ resp.op = "protected" /\ resp.code = 401
    /\ resp.token \in tokens /\ ExpiredSince(resp.token)
    /\ \E w \in pending :
          /\ w.req.token \in tokens /\ ExpiredSince(w.req.token)
          /\ w.payload.sub \in DOMAIN fake_users_db
          /\ w.payload.roles = fake_users_db[w.payload.sub].roles
          /\ w.payload.token_type = "access"


(***************************************************************************)
(* C13: the handler step of a refresh request, whose token its dependency  *)
(* decoded at an earlier instant, answers 401 and issues nothing when the  *)
(* decoded token is not of type refresh; otherwise it answers 200 and      *)
(* issues exactly one token, of type access, with the subject, roles and   *)
(* groups of the presented token (whatever the user's record says at that  *)
(* step) and exp = ACCESS_TOKEN_EXPIRE_MINUTES after the instant of the    *)
(* handler step, even if the refresh token has expired since it was        *)
(* decoded; the refresh token stays issued, so it can be presented again.  *)
(* A refresh request whose token does not decode at its get_token_payload  *)
(* step is answered 401 there and issues nothing.                          *)
(***************************************************************************)
C13_RefreshFromToken ==
    [][resp'.op = "refresh" =>
          LET token == resp'.token
              claims == jwt_claims(token)
          IN  IF ~Authenticated
              THEN /\ resp'.code = 401 /\ tokens' = tokens
                   /\ token_error(token) # ""
              ELSE IF claims.token_type # "refresh"
              THEN resp'.code = 401 /\ tokens' = tokens
              ELSE /\ resp'.code = 200
                   /\ token \in tokens'
                   /\ \E new_access \in tokens' :
                         /\ tokens' = tokens \cup {new_access}
                         /\ get_token_payload(new_access)'.status_code = 0
                         /\ jwt_claims(new_access) =
                               Issued(claims.sub, claims.roles, claims.groups,
                                      "access", now + ACCESS_TOKEN_EXPIRE_MINUTES)]_vars

\* a refresh token decoded before its exp is exchanged by a handler that runs
\* after that exp, when the user's groups are no longer those of the token,
\* and an access token of an earlier exchange or login is still issued
C13_Witness ==
    /\ resp.op = "refresh" /\ resp.code = 200
    /\ jwt_claims(resp.token).token_type = "refresh"
    /\ ExpiredSince(resp.token)
    /\ fake_users_db[Subject(resp.token)].groups # jwt_claims(resp.token).groups
    /\ \E t1, t2 \in tokens :
          /\ Subject(t1) = Subject(resp.token) /\ Subject(t2) = Subject(resp.token)
          /\ jwt_claims(t1).token_type = "access"
          /\ jwt_claims(t2).token_type = "access"
          /\ jwt_claims(t1).groups = jwt_claims(resp.token).groups
          /\ jwt_claims(t2).groups = jwt_claims(resp.token).groups
          /\ jwt_claims(t1).exp = now + ACCESS_TOKEN_EXPIRE_MINUTES
          /\ jwt_claims(t2).exp < jwt_claims(t1).exp


(***************************************************************************)
(* C14: a register request for a username already in the store is answered *)
(* 400 and changes nothing: the users (hash, roles, groups), the groups    *)
(* and their members, and the issued tokens are as before; and 400 is      *)
(* given to no other register request.                                     *)
(***************************************************************************)
C14_DuplicateRegisterRejected ==
    [][resp'.op = "register" =>
          IF resp'.username \in DOMAIN fake_users_db
          THEN /\ resp'.code = 400
               /\ UNCHANGED <<fake_users_db, fake_groups_db, tokens>>
          ELSE resp'.code = 200]_vars

\* a second registration of a user who is a member of a group and holds tokens
C14_Witness ==
    /\ resp.op = "register" /\ resp.code = 400
    /\ resp.username \in DOMAIN fake_users_db
    /\ fake_users_db[resp.username].groups # <<>>
    /\ \E t \in tokens : Subject(t) = resp.username


(***************************************************************************)
(* C15: a login request is answered 200 exactly when the username is       *)
(* registered and the supplied password is the one whose hash was stored   *)
(* at registration; every other login request, for an unknown username or  *)
(* with a wrong password alike, is answered 401, and a login answered 401  *)
(* issues no token and changes no store.                                   *)
(***************************************************************************)
C15_LoginIffPasswordMatches ==
    [][resp'.op = "login" =>
          /\ \A p \in Passwords :
                 login(resp'.username, p) =>
                     (resp'.code = 200 <=>
                         /\ resp'.username \in DOMAIN fake_users_db
                         /\ fake_users_db[resp'.username].password = hash_password(p))
          /\ resp'.code # 200 =>
                 /\ resp'.code = 401
                 /\ UNCHANGED <<fake_users_db, fake_groups_db, tokens>>]_vars

\* a registered user is refused (so the password was wrong) while the other
\* username, unknown to the store, can only be refused too
C15_Witness ==
    /\ resp.op = "login" /\ resp.code = 401
    /\ resp.username \in DOMAIN fake_users_db
    /\ \E u \in Usernames : u \notin DOMAIN fake_users_db
    /\ tokens = {}


(***************************************************************************)
(* C16: on the claims get_token_payload returned for a token, require_role *)
(* passes exactly when one of the required roles is among the roles claim, *)
(* and raises 403 otherwise, a token with no roles claim counting as one   *)
(* with no roles.  A GET /admin/users request is answered 401 at its       *)
(* get_token_payload step when the token does not decode at that instant;  *)
(* once decoded it is answered 403 at its require_role step unless the     *)
(* roles claim contains "admin", and 200 by the handler, which runs only   *)
(* for a request that require_role passed, at whatever later instant (the  *)
(* token may have expired since); and it changes nothing.                  *)
(***************************************************************************)
C16_RoleGate ==
    /\ [](/\ \A t \in tokens \cup {RolelessToken}, required \in SUBSET RoleInputs :
               LET payload == jwt_claims(t)
                   held == IF "roles" \in DOMAIN payload
                           THEN {payload.roles[i] : i \in 1..Len(payload.roles)}
                           ELSE {}
               IN  /\ require_role(required, payload) \in {0, 403}
                   /\ require_role(required, payload) = 0 <=> held \cap required # {}
           /\ \A w \in pending :
               /\ w.payload = jwt_claims(w.req.token)
               /\ w.dependency = "require_role" =>
                      /\ w.req.op = "list_users"
                      /\ "roles" \in DOMAIN w.payload
                      /\ InSeq("admin", w.payload.roles))
    /\ [][resp'.op = "list_users" =>
             LET t == resp'.token
                 admin == "roles" \in DOMAIN jwt_claims(t)
                              /\ InSeq("admin", jwt_claims(t).roles)
             IN  /\ IF ~Authenticated
                    THEN resp'.code = 401 /\ token_error(t) # ""
                    ELSE /\ resp'.code = (IF admin THEN 200 ELSE 403)
                         /\ resp'.code = 200 =>
                               \E w \in pending \ pending' :
                                   w.dependency = "require_role"
                 /\ UNCHANGED <<fake_users_db, fake_groups_db, tokens>>]_vars

\* the handler has answered an administrator whose token expired after it
\* was decoded, while the token of a plain user is issued
C16_Witness ==
    /\ resp.op = "list_users" /\ resp.code = 200
    /\ ExpiredSince(resp.token)
    /\ InSeq("admin", jwt_claims(resp.token).roles)
    /\ \E t \in tokens : jwt_claims(t).roles = <<"user">>


(***************************************************************************)
(* C17: the handler step of a status request (its token decoded at an      *)
(* earlier instant) for a group stored at that step answers 200 when the   *)
(* token's subject is in the group's members list as that step reads it,   *)
(* and 403 otherwise, whatever the groups claim of the token says and      *)
(* whatever the membership was when the token was decoded; a status        *)
(* request whose token does not decode at its get_token_payload step is    *)
(* answered 401 there; and no step of a status request changes the users,  *)
(* the groups, the tokens or the clock.                                    *)
(***************************************************************************)
C17_StatusForCurrentMembers ==
    [][/\ resp'.op = "status" =>
             /\ UNCHANGED <<fake_users_db, fake_groups_db, tokens, now>>
             /\ IF ~Authenticated
                THEN resp'.code = 401 /\ token_error(resp'.token) # ""
                ELSE resp'.code =
                        (IF resp'.group \notin GroupsStored THEN 404
                         ELSE IF Subject(resp'.token) \in MemberSet(resp'.group)
                         THEN 200 ELSE 403)
       /\ (Verified /\ resp'.group \in GroupNames) =>
             UNCHANGED <<fake_users_db, fake_groups_db, tokens, now>>]_vars

\* a member who joined after logging in is answered, by a handler that ran
\* after the token had expired, with a token whose groups claim does not
\* name the group, while the group has a registered user outside it
C17_Witness ==
    /\ resp.op = "status" /\ resp.code = 200
    /\ ExpiredSince(resp.token)
    /\ ~InSeq(resp.group, jwt_claims(resp.token).groups)
    /\ Subject(resp.token) \in MemberSet(resp.group)
    /\ \E u \in DOMAIN fake_users_db : u \notin MemberSet(resp.group)

(***************************************************************************)
(* C19: an answered approve request with action approve on a Payment whose *)
(* paid_amount differs from the group's split_amount leaves that Payment's *)
(* status and paid_amount as they were.                                    *)
(***************************************************************************)
C19_ShortApproveChangesNothing ==
    [][(/\ resp'.op = "approve" /\ resp'.code = 200 /\ resp'.action = "approve"
        /\ PaymentOf(resp'.group, resp'.username).paid_amount
              # fake_groups_db[resp'.group].split_amount)
       => fake_groups_db'[resp'.group].payments[resp'.username]
              = fake_groups_db[resp'.group].payments[resp'.username]]_vars


(***************************************************************************)
(* C20: the handler step of an approve request with action deny (its token *)
(* decoded at an earlier instant) whose subject is the group's admin, for  *)
(* a member who has a Payment in the state that step reads, answers 200    *)
(* and leaves that Payment denied with its paid_amount as it was, whatever *)
(* its status was and whether or not the Payment existed when the token    *)
(* was decoded; and an answered approve request with action approve on a   *)
(* Payment that is approved leaves its paid_amount as it was.              *)
(***************************************************************************)
C20_DenyAlwaysDenies ==
    [][resp'.op = "approve" =>
          LET g == resp'.group
              m == resp'.username
          IN  /\ (/\ resp'.action = "deny" /\ Authenticated
                  /\ g \in Ledgers /\ HasPayment(g, m)
                  /\ "admin" \in fake_groups_db[g].keys
                  /\ Subject(resp'.token) = fake_groups_db[g].admin)
                 => /\ resp'.code = 200
                    /\ fake_groups_db'[g].payments[m] =
                          [PaymentOf(g, m) EXCEPT !.status = "denied"]
              /\ (/\ resp'.action = "approve" /\ resp'.code = 200
                  /\ PaymentOf(g, m).status = "approved")
                 => fake_groups_db'[g].payments[m].paid_amount
                       = PaymentOf(g, m).paid_amount]_vars

\* a deny has been answered on a Payment that was paid in full, by a handler
\* that ran after the admin's token had expired
C20_Witness ==
    /\ resp.op = "approve" /\ resp.code = 200 /\ resp.action = "deny"
    /\ ExpiredSince(resp.token)
    /\ HasPayment(resp.group, resp.username)
    /\ PaymentOf(resp.group, resp.username).status = "denied"
    /\ PaymentOf(resp.group, resp.username).paid_amount
          = fake_groups_db[resp.group].split_amount
    /\ PaymentOf(resp.group, resp.username).paid_amount > 0


(***************************************************************************)
(* C18: whenever no add-user request is in progress, every stored group    *)
(* with a positive budget whose members list names each member once has    *)
(* split_amount = round(budget / |members|, 2) and a Payment for each of   *)
(* its members (payments is a dict, so a member has at most one).          *)
(***************************************************************************)
C18_ConcurrentAddsSettle ==
    (\A c \in CallIds : calls[c].pc = "idle") =>
        \A g \in Ledgers :
            LET group == fake_groups_db[g]
            IN  (/\ group.budget > 0 /\ group.members # <<>>
                 /\ Cardinality(MemberSet(g)) = Len(group.members)) =>
                    /\ group.split_amount = Round2(group.budget, Len(group.members))
                    /\ \A m \in MemberSet(g) : HasPayment(g, m)


(***************************************************************************)
(* C21: the handler step of an approve request whose action is neither     *)
(* approve nor deny (its token decoded at an earlier instant) whose        *)
(* subject is the group's admin, for a member who has a Payment in the     *)
(* state that step reads, answers 200 and leaves that Payment with status  *)
(* pending and its paid_amount as it was.                                  *)
(***************************************************************************)
C21_UnknownActionSetsPending ==
    [][(/\ resp'.op = "approve" /\ resp'.action \notin {"approve", "deny"}
        /\ Authenticated
        /\ HasPayment(resp'.group, resp'.username)
        /\ "admin" \in fake_groups_db[resp'.group].keys
        /\ Subject(resp'.token) = fake_groups_db[resp'.group].admin)
       => /\ resp'.code = 200
          /\ fake_groups_db'[resp'.group].payments[resp'.username] =
                [PaymentOf(resp'.group, resp'.username) EXCEPT !.status = "pending"]]_vars

\* an unrecognised action has been answered on a Payment that was paid, by a
\* handler that ran after the admin's token had expired
C21_Witness ==
    /\ resp.op = "approve" /\ resp.code = 200
    /\ resp.action \notin {"approve", "deny"}
    /\ ExpiredSince(resp.token)
    /\ HasPayment(resp.group, resp.username)
    /\ PaymentOf(resp.group, resp.username).status = "pending"
    /\ PaymentOf(resp.group, resp.username).paid_amount > 0


(***************************************************************************)
(* C22: an add-user request naming an unknown user or an unknown group is  *)
(* answered 404 and changes neither store; an add-user request for a user  *)
(* who is already in the group's members changes neither store: members,   *)
(* split_amount, payments and the user's groups are as before.  The second *)
(* part is stated for groups created with a positive budget and holding a  *)
(* positive split_amount.                                                  *)
(***************************************************************************)
C22_AddMemberIdempotent ==
    [][resp'.op = "add_user" =>
          IF \/ resp'.username \notin DOMAIN fake_users_db
             \/ resp'.group \notin GroupsStored
          THEN resp'.code = 404 /\ StoresUnchanged
          ELSE (/\ resp'.username \in MemberSet(resp'.group)
                /\ resp'.group \in Ledgers
                /\ fake_groups_db[resp'.group].budget > 0
                /\ fake_groups_db[resp'.group].split_amount > 0)
                   => StoresUnchanged]_vars


(***************************************************************************)
(* C23: an add-user request answered 200 for a user who was not in the     *)
(* group's members appends that user to members, gives the user a default  *)
(* Payment, and leaves everything else of the group but split_amount as it *)
(* was: admin, budget, and every Payment the group held, no Payment other  *)
(* than the new member's being created.  Stated for groups with a positive *)
(* budget.                                                                 *)
(***************************************************************************)
C23_AddMemberFrame ==
    [][(/\ resp'.op = "add_user" /\ resp'.code = 200
        /\ resp'.username \notin MemberSet(resp'.group)
        /\ fake_groups_db[resp'.group].budget > 0)
       => LET before == fake_groups_db[resp'.group]
              after == fake_groups_db'[resp'.group]
          IN  /\ after.members = Append(before.members, resp'.username)
              /\ after.admin = before.admin
              /\ after.budget = before.budget
              /\ after.keys = before.keys
              /\ \A m \in DOMAIN before.payments : after.payments[m] = before.payments[m]
              /\ DOMAIN after.payments = DOMAIN before.payments \cup {resp'.username}
              /\ after.payments[resp'.username] = DefaultPayment]_vars


(***************************************************************************)
(* C25: in every state a registered user is in a group's members exactly   *)
(* when the group's name is in the user's groups, and no group's members   *)
(* list names a user twice.                                                *)
(***************************************************************************)
C25_MembershipConsistent ==
    \A g \in GroupsStored :
        /\ Cardinality(MemberSet(g)) = Len(fake_groups_db[g].members)
        /\ \A u \in DOMAIN fake_users_db :
               u \in MemberSet(g) <=> InSeq(g, fake_users_db[u].groups)


(***************************************************************************)
(* Reading the booking applications.                                       *)
(***************************************************************************)
\* the sum of seats_booked over the bookings of a set of ids
RECURSIVE SeatsOf(_, _)
SeatsOf(bookings, ids) ==
    IF ids = {} THEN 0
    ELSE LET b == CHOOSE x \in ids : TRUE
         IN  bookings[b].seats_booked + SeatsOf(bookings, ids \ {b})

\* the stored bookings of a showtime
BookingsFor(bookings, showtime_id) ==
    {b \in DOMAIN bookings : bookings[b].showtime_id = showtime_id}

(***************************************************************************)
(* C26 (main.py): in every state each showtime's available_seats is 50     *)
(* minus the seats of the bookings stored for it, and is not negative; a   *)
(* booking request for more seats than are available is answered 400 and  *)
(* leaves showtimes, bookings and booking_counter as they were; and        *)
(* booking ids are not reused: a new booking takes the id booking_counter, *)
(* which is above every id given before and never decreases.               *)
(***************************************************************************)
C26_SeatsAccounted ==
    /\ [](\A s \in DOMAIN main.showtimes :
             /\ main.showtimes[s].available_seats =
                    AVAILABLE_SEATS - SeatsOf(main.bookings, BookingsFor(main.bookings, s))
             /\ main.showtimes[s].available_seats >= 0)
    /\ [][/\ (/\ main'.response.op = "book"
              /\ main'.response.id \in DOMAIN main.showtimes
              /\ main'.response.seats > main.showtimes[main'.response.id].available_seats)
             => /\ main'.response.code = 400
                /\ main'.showtimes = main.showtimes
                /\ main'.bookings = main.bookings
                /\ main'.booking_counter = main.booking_counter
          /\ main'.booking_counter >= main.booking_counter
          /\ \A b \in DOMAIN main.bookings : b < main.booking_counter
          /\ \A b \in (DOMAIN main'.bookings) \ (DOMAIN main.bookings) :
                 b = main.booking_counter /\ main'.booking_counter > b]_vars

\* a booking has been cancelled and a later one stored under a new id, and a
\* request for more seats than are left has been refused
C26_Witness ==
    /\ main.response.op = "book" /\ main.response.code = 400
    /\ \E s \in DOMAIN main.showtimes :
          /\ main.showtimes[s].available_seats < AVAILABLE_SEATS
          /\ main.showtimes[s].available_seats > 0
    /\ \E b \in 1..(main.booking_counter - 1) : b \notin DOMAIN main.bookings
    /\ \E b \in DOMAIN main.bookings :
          \E c \in 1..(b - 1) : c \notin DOMAIN main.bookings


(***************************************************************************)
(* C24 (enhancedversion.py): in every state each showtime has              *)
(* 0 <= available_seats <= total_seats and                                 *)
(* available_seats + booked_seats = total_seats; and the seats of a        *)
(* booking are returned once: a cancel request for a booking that is       *)
(* already cancelled leaves the showtimes as they were.                    *)
(***************************************************************************)
C24_SeatsWithinTotal ==
    /\ [](\A s \in DOMAIN enhanced.showtimes :
             LET showtime == enhanced.showtimes[s]
             IN  /\ 0 <= showtime.available_seats
                 /\ showtime.available_seats <= showtime.total_seats
                 /\ showtime.available_seats + showtime.booked_seats = showtime.total_seats)
    /\ [][(/\ enhanced'.response.op = "cancel"
           /\ enhanced'.response.id \in DOMAIN enhanced.bookings
           /\ enhanced.bookings[enhanced'.response.id].booking_status = "Cancelled")
          => enhanced'.showtimes = enhanced.showtimes]_vars

====
